---- MODULE Spec2Model ----
(***************************************************************************)
(* Pollard's rho for the discrete logarithm (src/src/lib.rs): the walk     *)
(* step functions func_f / func_g / func_h, the congruence solver          *)
(* eqs_solvers, one search attempt pollard_rho (Floyd cycle detection) and *)
(* the retry driver try_pollard_rho.                                       *)
(*                                                                         *)
(* rug::Integer is arbitrary precision, so the integers of the model are   *)
(* plain integers.  The Mersenne twister is a library outside the          *)
(* repository: what the program relies on is that the numbers drawn after  *)
(* rand.seed(seed) are a function of the seed, so the model keeps the      *)
(* table `mt` of the draws each seed has produced so far; a seed that has  *)
(* not been used yet may produce any pair in range.                        *)
(***************************************************************************)
EXTENDS Integers, Sequences, FiniteSets, TLC

VARIABLES
    limit, seed, base, y, p, n,       \* the arguments of try_pollard_rho
    loop_count, current_seed,         \* locals of try_pollard_rho
    a_i, b_i, x_i,                    \* tortoise (single step) of pollard_rho
    a_2i, b_2i, x_2i,                 \* hare (double step) of pollard_rho
    xm_2i, am_2i, bm_2i,              \* the hare's intermediate step
    i,                                \* loop counter of pollard_rho
    ret,                              \* what the last pollard_rho returned
    result,                           \* what try_pollard_rho returned
    pc,                               \* position in the program
    mt,                               \* seed -> the two draws it produces
    attempts,                         \* history: <<seed, outcome>> per attempt
    trace,                            \* history: per attempt, its walk states
    run, prev,                        \* number of the call; the first call's record
    call, call_ret                    \* a direct call of eqs_solvers and its value

vars == << limit, seed, base, y, p, n, loop_count, current_seed,
           a_i, b_i, x_i, a_2i, b_2i, x_2i, xm_2i, am_2i, bm_2i, i,
           ret, result, pc, mt, attempts, trace, run, prev, call, call_ret >>

----------------------------------------------------------------------------
(* Bounds of the model.                                                    *)

MaxP == 3          \* any p in 1..MaxP, any base, y in [0, p), any n in 0..MaxN
MaxN == 2
MaxGroupP == 11    \* every prime-order subgroup modulo p <= MaxGroupP
MaxX == 6          \* the secret exponent x ranges over 0..MaxX
MaxLimit == 1
MaxSeed == 1
MaxArg == 3        \* direct calls of eqs_solvers: arguments in -1..MaxArg
MaxModulus == 6    \* direct calls of eqs_solvers: n in 1..MaxModulus

BIG_INT_0 == 0

----------------------------------------------------------------------------
(* Option<Integer> and MapResult<Integer>.                                 *)

None == [some |-> FALSE, val |-> 0]
Some(v) == [some |-> TRUE, val |-> v]

MappingError == [ok |-> FALSE, val |-> 0]
Ok(v) == [ok |-> TRUE, val |-> v]

----------------------------------------------------------------------------
(* The big-integer primitives the code calls (rug / GMP).                  *)

\* A residue with the sign of the dividend, as the % of the machine integers.
mod_u_trunc(X, M) == IF X >= 0 THEN X % M ELSE -((-X) % M)

\* Integer::mod_u: the remainder of Euclidean division by a u32.
mod_u(X, M) == X % M

\* A remainder with the sign of the dividend (truncated division).
rem_trunc(X, M) == IF X >= 0 THEN X % M ELSE -((-X) % M)

\* div_rem_euc_ref(..).1: the Euclidean remainder, in [0, M) for M > 0.
rem_euc(X, M) == X % M

RECURSIVE gcd(_, _)
gcd(X, Y) ==
    LET ax == IF X < 0 THEN -X ELSE X
        ay == IF Y < 0 THEN -Y ELSE Y
    IN IF ay = 0 THEN ax ELSE gcd(ay, ax % ay)

\* Integer::invert: the inverse in [0, M) when one exists.
invert(X, M) ==
    LET invs == {v \in 0..(M - 1) : (X * v) % M = 1 % M}
    IN IF invs = {} THEN None ELSE Some(CHOOSE v \in invs : TRUE)

RECURSIVE PowNat(_, _, _)
PowNat(B, E, M) == IF E = 0 THEN 1 % M ELSE (B * PowNat(B, E - 1, M)) % M

\* Integer::pow_mod_ref: None for a negative exponent without an inverse.
pow_mod(B, E, M) ==
    IF E >= 0 THEN Some(PowNat(B, E, M))
    ELSE LET inv == invert(B, M)
         IN IF inv.some THEN Some(PowNat(inv.val, -E, M)) ELSE None

\* Integer / Integer rounds towards zero.
div_trunc(X, D) ==
    IF (X >= 0) = (D > 0) THEN
        (IF X >= 0 THEN X ELSE -X) \div (IF D > 0 THEN D ELSE -D)
    ELSE -((IF X >= 0 THEN X ELSE -X) \div (IF D > 0 THEN D ELSE -D))

----------------------------------------------------------------------------
(* The mapping functions.                                                  *)

func_f(X, BASE, Y, P) ==
    LET c == mod_u(X, 3)
    IN CASE c = 0 -> Ok(pow_mod(X, 2, P).val)
         [] c = 1 -> Ok(rem_euc(BASE * X, P))
         [] c = 2 -> Ok(rem_euc(Y * X, P))
         [] OTHER -> MappingError

\* g without the reduction in the class 1.
func_g_unreduced(A, N, X) ==
    LET c == mod_u(X, 3)
    IN CASE c = 0 -> Ok(rem_euc(A * 2, N))
         [] c = 1 -> Ok(A + 1)
         [] c = 2 -> Ok(A)
         [] OTHER -> MappingError

func_g(A, N, X) ==
    LET c == mod_u(X, 3)
    IN CASE c = 0 -> Ok(rem_euc(A * 2, N))
         [] c = 1 -> Ok(rem_euc(A + 1, N))
         [] c = 2 -> Ok(A)
         [] OTHER -> MappingError

\* h with the branches of the classes 1 and 2 exchanged.
func_h_swapped(B, N, X) ==
    LET c == mod_u(X, 3)
    IN CASE c = 0 -> Ok(rem_euc(B * 2, N))
         [] c = 1 -> Ok(rem_euc(B + 1, N))
         [] c = 2 -> Ok(B)
         [] OTHER -> MappingError

func_h(B, N, X) ==
    LET c == mod_u(X, 3)
    IN CASE c = 0 -> Ok(rem_euc(B * 2, N))
         [] c = 1 -> Ok(B)
         [] c = 2 -> Ok(rem_euc(B + 1, N))
         [] OTHER -> MappingError

----------------------------------------------------------------------------
(* The congruence solver, for N > 0.                                       *)

\* The solver with the difference taken as a1 - a2.
eqs_solvers_swapped_dif(A1, B1, A2, B2, N) ==
    LET r == rem_euc(B1 - B2, N)
    IN IF r = 0 THEN None
       ELSE LET inv == invert(r, N)
            IN IF inv.some THEN Some(rem_euc(inv.val * (A1 - A2), N))
               ELSE Some(0)

\* The solver testing b1 - b2 for zero before reducing it.
eqs_solvers_unreduced(A1, B1, A2, B2, N) ==
    LET r == rem_euc(B1 - B2, N)
    IN IF B1 - B2 = 0 THEN None
       ELSE LET inv == invert(r, N)
            IN IF inv.some THEN Some(rem_euc(inv.val * (A2 - A1), N))
               ELSE
                   LET div == gcd(r, N)
                       res_l == div_trunc(B1 - B2, div)
                       res_r == div_trunc(A2 - A2, div)
                       p1 == div_trunc(N, div)
                       inv1 == invert(res_l, p1)
                   IN IF inv1.some THEN Some(rem_euc(inv1.val * res_r, p1))
                      ELSE None

\* The solver returning its products without the last reduction.
eqs_solvers_no_final_mod(A1, B1, A2, B2, N) ==
    LET r == rem_euc(B1 - B2, N)
    IN IF r = 0 THEN None
       ELSE LET inv == invert(r, N)
            IN IF inv.some THEN Some(inv.val * (A2 - A1))
               ELSE
                   LET div == gcd(r, N)
                       res_l == div_trunc(B1 - B2, div)
                       res_r == div_trunc(A2 - A2, div)
                       p1 == div_trunc(N, div)
                       inv1 == invert(res_l, p1)
                   IN IF inv1.some THEN Some(inv1.val * res_r)
                      ELSE None

eqs_solvers(A1, B1, A2, B2, N) ==
    LET r == rem_euc(B1 - B2, N)
    IN IF r = 0 THEN None
       ELSE LET inv == invert(r, N)
            IN IF inv.some THEN
                   LET res_inv == inv.val
                       dif == A2 - A1
                   IN Some(rem_euc(res_inv * dif, N))
               ELSE
                   LET div == gcd(r, N)
                       res_l == div_trunc(B1 - B2, div)
                       res_r == div_trunc(A2 - A2, div)
                       p1 == div_trunc(N, div)
                       inv1 == invert(res_l, p1)
                   IN IF inv1.some THEN Some(rem_euc(inv1.val * res_r, p1))
                      ELSE None

----------------------------------------------------------------------------
(* Preconditions of the algorithm, as the documentation states them.       *)

IsPrime(N) == N >= 2 /\ \A d \in 2..(N - 1) : N % d # 0

\* BASE has multiplicative order N modulo P.
HasOrder(BASE, N, P) ==
    /\ N >= 1
    /\ PowNat(BASE, N, P) = 1
    /\ \A k \in 1..(N - 1) : PowNat(BASE, k, P) # 1

\* Y = BASE^x mod P for some exponent x.
InSubgroup(Y, BASE, P) == \E x \in 0..MaxX : Y = PowNat(BASE, x, P)

ValidGroup == IsPrime(n) /\ HasOrder(base, n, p) /\ InSubgroup(y, base, p)

----------------------------------------------------------------------------
(* The seeded generator.                                                   *)

\* gen_bigint_range: start + random_below(stop - start); every value the
\* generator can return.  random_below panics when the range is not positive.
gen_bigint_range(START, STOP) == {START + below : below \in 0..(STOP - START - 1)}

\* A generator that is not seeded from S: any pair, on every use.
mersenne_twister_unseeded(S, N) ==
    gen_bigint_range(BIG_INT_0, N) \X gen_bigint_range(BIG_INT_0, N)

\* RandState::new_mersenne_twister() seeded with S, then two draws below N:
\* the pair this seed produced before, or any pair when it is used first.
mersenne_twister(S, N) ==
    IF S \in DOMAIN mt THEN {mt[S]}
    ELSE gen_bigint_range(BIG_INT_0, N) \X gen_bigint_range(BIG_INT_0, N)

----------------------------------------------------------------------------
(* Initial state: try_pollard_rho has been called with its arguments.      *)

NoCall == [a1 |-> 0, b1 |-> 0, a2 |-> 0, b2 |-> 0, n |-> 1]
NoPrev == [attempts |-> << >>, trace |-> << >>, result |-> 0]

Fresh ==
    /\ loop_count = 0
    /\ current_seed = seed
    /\ a_i = 0 /\ b_i = 0 /\ x_i = 0
    /\ a_2i = 0 /\ b_2i = 0 /\ x_2i = 0
    /\ xm_2i = 0 /\ am_2i = 0 /\ bm_2i = 0
    /\ i = 0
    /\ ret = None
    /\ result = 0
    /\ attempts = << >>
    /\ trace = << >>

Init ==
    /\ p \in 1..MaxGroupP
    /\ n \in 0..MaxGroupP
    /\ base \in 0..(p - 1)
    /\ y \in 0..(p - 1)
    /\ \/ p <= MaxP /\ n <= MaxN
       \/ ValidGroup
    /\ limit \in 0..MaxLimit
    /\ seed \in 0..MaxSeed
    /\ Fresh
    /\ pc = "attempt"
    /\ mt = << >>
    /\ run = 1
    /\ prev = NoPrev
    /\ call = NoCall
    /\ call_ret = None

----------------------------------------------------------------------------
(* pollard_rho.                                                            *)

\* Lines 134-136: the tortoise's step; g and h read x_i before f replaces it.
single_step(X, A, B) ==
    LET ga == func_g(A, n, X)
        hb == func_h(B, n, X)
        fx == func_f(X, base, y, p)
    IN [ok |-> ga.ok /\ hb.ok /\ fx.ok, x |-> fx.val, a |-> ga.val, b |-> hb.val]

\* The hare's second step dispatching on the position before the first.
double_step_stale(X, A, B) ==
    LET fxm == func_f(X, base, y, p)
        gam == func_g(A, n, X)
        ga2 == func_g(gam.val, n, X)
        hbm == func_h(B, n, X)
        hb2 == func_h(hbm.val, n, X)
        fx2 == func_f(fxm.val, base, y, p)
    IN [ok |-> fxm.ok /\ gam.ok /\ ga2.ok /\ hbm.ok /\ hb2.ok /\ fx2.ok,
        xm |-> fxm.val, am |-> gam.val, bm |-> hbm.val,
        x |-> fx2.val, a |-> ga2.val, b |-> hb2.val]

\* Lines 138-146: the hare's two steps, through xm_2i, am_2i, bm_2i.
double_step(X, A, B) ==
    LET fxm == func_f(X, base, y, p)
        gam == func_g(A, n, X)
        ga2 == func_g(gam.val, n, fxm.val)
        hbm == func_h(B, n, X)
        hb2 == func_h(hbm.val, n, fxm.val)
        fx2 == func_f(fxm.val, base, y, p)
    IN [ok |-> fxm.ok /\ gam.ok /\ ga2.ok /\ hbm.ok /\ hb2.ok /\ fx2.ok,
        xm |-> fxm.val, am |-> gam.val, bm |-> hbm.val,
        x |-> fx2.val, a |-> ga2.val, b |-> hb2.val]

\* Loop conditions that are off by one, either way.
loop_cond_inclusive == i <= n
loop_cond_short == i < n - 1

\* Line 132: the condition of the while loop.
loop_cond == i < n

\* The walk states of the attempt in progress, and its iterations so far.
Walk == trace[Len(trace)]
Iterations == IF trace = << >> THEN 0 ELSE Len(Walk) - 1

\* Lines 118-131: seed the generator, draw a_0 and b_0, compute x_0.
Begin ==
    /\ pc = "attempt"
    /\ IF n - BIG_INT_0 <= 0 THEN
           /\ pc' = "panic"
           /\ UNCHANGED << a_i, b_i, x_i, a_2i, b_2i, x_2i, i, ret, mt, trace,
                           attempts >>
       ELSE \E d \in mersenne_twister(current_seed, n) :
           LET x_i_base == pow_mod(base, d[1], p)
               x_i_y == pow_mod(y, d[2], p)
               x0 == rem_euc(x_i_base.val * x_i_y.val, p)
           IN /\ mt' = (current_seed :> d) @@ mt
              /\ a_i' = d[1] /\ b_i' = d[2]
              /\ a_2i' = d[1] /\ b_2i' = d[2]
              /\ IF x_i_base.some /\ x_i_y.some THEN
                     /\ x_i' = x0 /\ x_2i' = x0
                     /\ i' = BIG_INT_0
                     /\ trace' = Append(trace,
                                        << << x0, d[1], d[2], x0, d[1], d[2] >> >>)
                     /\ pc' = "loop"
                     /\ UNCHANGED << ret, attempts >>
                 ELSE
                     /\ ret' = None
                     /\ attempts' = Append(attempts, << current_seed, None >>)
                     /\ trace' = Append(trace, << >>)
                     /\ pc' = "returned"
                     /\ UNCHANGED << x_i, x_2i, i >>
    /\ UNCHANGED << limit, seed, base, y, p, n, loop_count, current_seed,
                    xm_2i, am_2i, bm_2i, result, run, prev, call, call_ret >>

\* An iteration that walks on when the solver finds nothing at a collision.
Step_retry_inside ==
    /\ pc = "loop"
    /\ loop_cond
    /\ LET t == single_step(x_i, a_i, b_i)
           h == double_step(x_2i, a_2i, b_2i)
           r == eqs_solvers(t.a, t.b, h.a, h.b, n)
       IN /\ a_i' = t.a /\ b_i' = t.b /\ x_i' = t.x
          /\ xm_2i' = h.xm /\ am_2i' = h.am /\ bm_2i' = h.bm
          /\ a_2i' = h.a /\ b_2i' = h.b /\ x_2i' = h.x
          /\ trace' = [trace EXCEPT ![Len(trace)] =
                           Append(@, << t.x, t.a, t.b, h.x, h.a, h.b >>)]
          /\ IF t.x = h.x /\ r.some THEN
                 /\ ret' = r
                 /\ attempts' = Append(attempts, << current_seed, r >>)
                 /\ pc' = "returned"
                 /\ UNCHANGED i
             ELSE
                 /\ i' = i + 1
                 /\ UNCHANGED << ret, attempts, pc >>
    /\ UNCHANGED << limit, seed, base, y, p, n, loop_count, current_seed,
                    result, mt, run, prev, call, call_ret >>

\* Lines 132-152: one iteration of the while loop.
Step ==
    /\ pc = "loop"
    /\ loop_cond
    /\ LET t == single_step(x_i, a_i, b_i)
           h == double_step(x_2i, a_2i, b_2i)
       IN IF t.ok /\ h.ok THEN
              /\ a_i' = t.a /\ b_i' = t.b /\ x_i' = t.x
              /\ xm_2i' = h.xm /\ am_2i' = h.am /\ bm_2i' = h.bm
              /\ a_2i' = h.a /\ b_2i' = h.b /\ x_2i' = h.x
              /\ trace' = [trace EXCEPT ![Len(trace)] =
                               Append(@, << t.x, t.a, t.b, h.x, h.a, h.b >>)]
              /\ IF t.x = h.x THEN
                     LET r == eqs_solvers(t.a, t.b, h.a, h.b, n)
                     IN /\ ret' = r
                        /\ attempts' = Append(attempts, << current_seed, r >>)
                        /\ pc' = "returned"
                        /\ UNCHANGED i
                 ELSE
                     /\ i' = i + 1
                     /\ UNCHANGED << ret, attempts, pc >>
          ELSE
              /\ pc' = "panic"
              /\ UNCHANGED << a_i, b_i, x_i, a_2i, b_2i, x_2i, xm_2i, am_2i,
                              bm_2i, i, ret, attempts, trace >>
    /\ UNCHANGED << limit, seed, base, y, p, n, loop_count, current_seed,
                    result, mt, run, prev, call, call_ret >>

\* Line 153: the loop ended without a collision.
Exhaust ==
    /\ pc = "loop"
    /\ ~loop_cond
    /\ ret' = None
    /\ attempts' = Append(attempts, << current_seed, None >>)
    /\ pc' = "returned"
    /\ UNCHANGED << limit, seed, base, y, p, n, loop_count, current_seed,
                    a_i, b_i, x_i, a_2i, b_2i, x_2i, xm_2i, am_2i, bm_2i, i,
                    result, mt, trace, run, prev, call, call_ret >>

----------------------------------------------------------------------------
(* try_pollard_rho, lines 167-178: what follows an attempt.                *)

Found ==
    /\ pc = "returned"
    /\ ret.some
    /\ result' = ret.val
    /\ pc' = "done"
    /\ UNCHANGED << limit, seed, base, y, p, n, loop_count, current_seed,
                    a_i, b_i, x_i, a_2i, b_2i, x_2i, xm_2i, am_2i, bm_2i, i,
                    ret, mt, attempts, trace, run, prev, call, call_ret >>

\* The retry test off by one: a retry also when loop_count = limit.
Retry_inclusive ==
    /\ pc = "returned"
    /\ ~ret.some
    /\ loop_count <= limit
    /\ current_seed' = current_seed + 1
    /\ loop_count' = loop_count + 1
    /\ pc' = "attempt"
    /\ UNCHANGED << limit, seed, base, y, p, n,
                    a_i, b_i, x_i, a_2i, b_2i, x_2i, xm_2i, am_2i, bm_2i, i,
                    ret, result, mt, attempts, trace, run, prev, call, call_ret >>

\* A retry that increments the caller's seed in place.
Retry_mutates_seed ==
    /\ pc = "returned"
    /\ ~ret.some
    /\ loop_count < limit
    /\ seed' = seed + 1
    /\ current_seed' = current_seed + 1
    /\ loop_count' = loop_count + 1
    /\ pc' = "attempt"
    /\ UNCHANGED << limit, base, y, p, n,
                    a_i, b_i, x_i, a_2i, b_2i, x_2i, xm_2i, am_2i, bm_2i, i,
                    ret, result, mt, attempts, trace, run, prev, call, call_ret >>

Retry ==
    /\ pc = "returned"
    /\ ~ret.some
    /\ loop_count < limit
    /\ current_seed' = current_seed + 1
    /\ loop_count' = loop_count + 1
    /\ pc' = "attempt"
    /\ UNCHANGED << limit, seed, base, y, p, n,
                    a_i, b_i, x_i, a_2i, b_2i, x_2i, xm_2i, am_2i, bm_2i, i,
                    ret, result, mt, attempts, trace, run, prev, call, call_ret >>

\* Giving up with the attempt counter as the result.
GiveUp_returns_count ==
    /\ pc = "returned"
    /\ ~ret.some
    /\ ~(loop_count < limit)
    /\ result' = loop_count
    /\ pc' = "done"
    /\ UNCHANGED << limit, seed, base, y, p, n, loop_count, current_seed,
                    a_i, b_i, x_i, a_2i, b_2i, x_2i, xm_2i, am_2i, bm_2i, i,
                    ret, mt, attempts, trace, run, prev, call, call_ret >>

GiveUp ==
    /\ pc = "returned"
    /\ ~ret.some
    /\ ~(loop_count < limit)
    /\ result' = BIG_INT_0
    /\ pc' = "done"
    /\ UNCHANGED << limit, seed, base, y, p, n, loop_count, current_seed,
                    a_i, b_i, x_i, a_2i, b_2i, x_2i, xm_2i, am_2i, bm_2i, i,
                    ret, mt, attempts, trace, run, prev, call, call_ret >>

Next == Begin \/ Step \/ Exhaust \/ Found \/ Retry \/ GiveUp

Spec == Init /\ [][Next]_vars

\* The program is sequential: whenever it can take a step, it does.
FairSpec == Spec /\ WF_vars(Next)

----------------------------------------------------------------------------
(* A second call of try_pollard_rho with the arguments of the first, as    *)
(* the repeated calls of tests::test_pollard_rho.                          *)

Again ==
    /\ pc = "done"
    /\ run = 1
    /\ run' = 2
    /\ prev' = [attempts |-> attempts, trace |-> trace, result |-> result]
    /\ UNCHANGED << limit, seed, base, y, p, n, mt, call, call_ret >>
    /\ loop_count' = 0
    /\ current_seed' = seed
    /\ a_i' = 0 /\ b_i' = 0 /\ x_i' = 0
    /\ a_2i' = 0 /\ b_2i' = 0 /\ x_2i' = 0
    /\ xm_2i' = 0 /\ am_2i' = 0 /\ bm_2i' = 0
    /\ i' = 0
    /\ ret' = None
    /\ result' = 0
    /\ attempts' = << >>
    /\ trace' = << >>
    /\ pc' = "attempt"

NextTwice == Next \/ Again

TwiceSpec == Init /\ [][NextTwice]_vars

----------------------------------------------------------------------------
(* A direct call of eqs_solvers(a1, b1, a2, b2, n).                        *)

InitSolver ==
    /\ call \in [a1 : -1..MaxArg, b1 : -1..MaxArg, a2 : -1..MaxArg,
                 b2 : -1..MaxArg, n : 1..MaxModulus]
    /\ call_ret = None
    /\ pc = "call"
    /\ limit = 0 /\ seed = 0 /\ base = 0 /\ y = 0 /\ p = 1 /\ n = 1
    /\ Fresh
    /\ mt = << >>
    /\ run = 1
    /\ prev = NoPrev

Solve ==
    /\ pc = "call"
    /\ call_ret' = eqs_solvers(call.a1, call.b1, call.a2, call.b2, call.n)
    /\ pc' = "called"
    /\ UNCHANGED << limit, seed, base, y, p, n, loop_count, current_seed,
                    a_i, b_i, x_i, a_2i, b_2i, x_2i, xm_2i, am_2i, bm_2i, i,
                    ret, result, mt, attempts, trace, run, prev, call >>

SolverSpec == InitSolver /\ [][Solve]_vars

\* Calls of try_pollard_rho and direct calls of eqs_solvers together.
InitAll == Init \/ InitSolver
NextAll == Next \/ Solve
AllSpec == InitAll /\ [][NextAll]_vars

----------------------------------------------------------------------------
(* Properties.                                                             *)

Outcome(k) == attempts[k][2]
AllFailed == \A k \in 1..Len(attempts) : ~Outcome(k).some

\* C1: with n prime, base of order n modulo p and y = base^x mod p, a key
\* returned by pollard_rho (and so by try_pollard_rho after a successful
\* attempt) satisfies base^k mod p = y and k = x mod n.
C1_Soundness ==
    (ValidGroup /\ ret.some) =>
        /\ PowNat(base, ret.val, p) = y
        /\ \A x \in 0..MaxX : PowNat(base, x, p) = y => ret.val = x % n
        /\ pc = "done" => result = ret.val

C1_Witness ==
    /\ pc = "done" /\ ValidGroup /\ ret.some
    /\ n >= 5 /\ result >= 2 /\ Len(attempts) = 2
    /\ PowNat(base, result, p) = y

\* C2: attempt number k runs with seed + k; an attempt is started only
\* after all earlier ones returned None and while fewer than limit retries
\* were made; the result is the key of the first attempt that returns Some,
\* which is the last attempt made; there are at most limit + 1 attempts.
C2_RetryOrder ==
    /\ Len(trace) <= limit + 1
    /\ Len(attempts) <= Len(trace)
    /\ DOMAIN mt = {seed + k : k \in 0..(Len(trace) - 1)}
    /\ \A k \in 1..Len(attempts) : attempts[k][1] = seed + (k - 1)
    /\ \A k \in 1..(Len(attempts) - 1) : ~Outcome(k).some
    /\ pc \in {"attempt", "loop"} =>
           /\ current_seed = seed + Len(attempts)
           /\ loop_count = Len(attempts)
           /\ loop_count <= limit
           /\ AllFailed
    /\ pc = "done" =>
           /\ Len(attempts) = Len(trace)
           /\ Outcome(Len(attempts)).some => result = Outcome(Len(attempts)).val

C2_Witness ==
    /\ pc = "done" /\ seed = 1 /\ limit = 1
    /\ Len(attempts) = 2 /\ attempts[2][1] = 2
    /\ ~Outcome(1).some /\ Outcome(2).some
    /\ result = Outcome(2).val /\ result > 0

\* C3: when every one of the limit + 1 attempts returns None the result is
\* exactly zero, and the call ends without a panic; with limit = 0 exactly
\* one attempt is made.
C3_Sentinel ==
    /\ (pc = "done" /\ AllFailed) => (result = 0 /\ Len(attempts) = limit + 1)
    /\ (Len(attempts) = limit + 1 /\ AllFailed) => pc \in {"returned", "done"}
    /\ (pc = "done" /\ limit = 0) => Len(attempts) = 1

C3_Witness ==
    /\ pc = "done" /\ limit = 1 /\ Len(attempts) = 2 /\ AllFailed
    /\ result = 0

\* C4: when (b1 - b2) mod n = 0, in particular when b1 = b2, eqs_solvers
\* returns None whatever a1 and a2 are (n > 0).
C4_NoSolution ==
    (pc = "called" /\ (call.b1 - call.b2) % call.n = 0) => call_ret = None

C4_Witness ==
    /\ pc = "called" /\ call.n > 1
    /\ call.b1 # call.b2 /\ (call.b1 - call.b2) % call.n = 0
    /\ call.a1 # call.a2
    /\ call_ret = None

\* C5: for n > 1, r = (b1 - b2) mod n non-zero and gcd(r, n) = 1,
\* eqs_solvers returns Some(x) with x the one value in [0, n) such that
\* (b1 - b2) * x = (a2 - a1) modulo n, also for negative differences.
C5_Invertible ==
    (/\ pc = "called" /\ call.n > 1
     /\ (call.b1 - call.b2) % call.n # 0
     /\ gcd((call.b1 - call.b2) % call.n, call.n) = 1) =>
        /\ call_ret.some
        /\ call_ret.val \in 0..(call.n - 1)
        /\ \A v \in 0..(call.n - 1) :
               (((call.b1 - call.b2) * v - (call.a2 - call.a1)) % call.n = 0)
                   <=> (v = call_ret.val)

C5_Witness ==
    /\ pc = "called" /\ call.n = 6
    /\ call.b1 - call.b2 < 0 /\ call.a2 - call.a1 < 0
    /\ gcd((call.b1 - call.b2) % call.n, call.n) = 1
    /\ call_ret.some /\ call_ret.val > 1

IsPrefix(s, t) == Len(s) <= Len(t) /\ \A k \in 1..Len(s) : s[k] = t[k]

\* C6: a second call with the same (limit, seed, base, y, p, n) goes through
\* the same walk states, attempt by attempt, and returns the same outcomes:
\* nothing but the seed, through the two draws, varies a call.
C6_Determinism ==
    run = 2 =>
        /\ pc # "panic"
        /\ IsPrefix(attempts, prev.attempts)
        /\ Len(trace) <= Len(prev.trace)
        /\ \A k \in 1..(Len(trace) - 1) : trace[k] = prev.trace[k]
        /\ trace # << >> => IsPrefix(Walk, prev.trace[Len(trace)])
        /\ pc = "done" =>
               /\ result = prev.result
               /\ attempts = prev.attempts
               /\ trace = prev.trace

C6_Witness ==
    /\ run = 2 /\ pc = "done" /\ n >= 5
    /\ Len(attempts) = 2 /\ ret.some /\ result = prev.result /\ result > 0
    /\ trace = prev.trace /\ Len(trace[2]) >= 3

\* What C7 bounds: the counter i counts the iterations made and never
\* passes n, no attempt makes more than n iterations, and no more than
\* limit + 1 attempts are started.
C7_Bounds ==
    /\ i <= n
    /\ pc = "loop" => i = Iterations
    /\ (pc = "returned" /\ x_i = x_2i) => i = Iterations - 1
    /\ \A k \in 1..Len(trace) : Len(trace[k]) - 1 <= n
    /\ Len(trace) <= limit + 1

\* C7 as claimed, for every n >= 0: the bounds hold and the computation
\* does not stop before it has returned a value.
C7_AsClaimed == (n >= 0) => (C7_Bounds /\ (pc = "done" \/ ENABLED Next))

\* The steps try_pollard_rho can still take: at most n + 3 for an attempt
\* (the draw, n iterations, the end of the loop, the test of the outcome).
Measure ==
    IF pc \in {"done", "panic"} THEN 0
    ELSE (limit - loop_count) * (n + 3)
         + (CASE pc = "attempt" -> n + 3
              [] pc = "loop" -> (n - i) + 2
              [] OTHER -> 1)

\* C7, amended to n >= 1: every attempt ends within n iterations, at most
\* limit + 1 attempts are made, and try_pollard_rho returns a value: it
\* never aborts, and every step it takes lowers Measure, a natural number.
C7_Termination ==
    /\ [](n >= 1 => (C7_Bounds /\ Measure >= 0 /\ pc # "panic"))
    /\ [][n >= 1 => Measure' < Measure]_vars

\* The same under the fairness of FairSpec: a value is returned at last.
C7_Eventually == (n >= 1) => <>(pc = "done")

C7_Witness ==
    /\ pc = "done" /\ n >= 3 /\ limit = 1 /\ Len(trace) = limit + 1
    /\ \E k \in 1..Len(trace) : Len(trace[k]) - 1 = n

\* x = base^a * y^b mod p.
OnWalk(X, A, B) == X = (PowNat(base, A, p) * PowNat(y, B, p)) % p

\* C8: with base of order n modulo p and y in the subgroup of base, the
\* tortoise triple, the hare triple and the hare's intermediate triple
\* satisfy x = base^a * y^b mod p in every state of an attempt.
C8_WalkInvariant ==
    (ValidGroup /\ pc \in {"loop", "returned", "done"}) =>
        /\ OnWalk(x_i, a_i, b_i)
        /\ OnWalk(x_2i, a_2i, b_2i)
        /\ Iterations >= 1 => OnWalk(xm_2i, am_2i, bm_2i)

C8_Witness ==
    /\ ValidGroup /\ pc = "loop" /\ i >= 3
    /\ a_i # a_2i /\ b_i # b_2i /\ b_i >= 2 /\ a_i >= 2 /\ x_i > 1
    /\ OnWalk(x_i, a_i, b_i)

\* C9: with base of order n modulo p and y in the subgroup of base, the
\* loop is never left through its condition: every attempt ends at a
\* collision after at most n iterations, and returns what the solver
\* returns there.
C9_Collision ==
    ValidGroup =>
        /\ pc = "loop" => i < n
        /\ pc \in {"returned", "done"} =>
               /\ x_i = x_2i
               /\ Iterations \in 1..n
               /\ ret = eqs_solvers(a_i, b_i, a_2i, b_2i, n)
        /\ \A k \in 1..Len(attempts) :
               trace[k][Len(trace[k])][1] = trace[k][Len(trace[k])][4]

C9_Witness ==
    /\ ValidGroup /\ pc = "returned" /\ n >= 3
    /\ Iterations = n /\ x_i = x_2i /\ ~ret.some

\* One application of f, g, h to a triple <<x, a, b>>, g and h reading x.
fgh(t) ==
    << func_f(t[1], base, y, p).val,
       func_g(t[2], n, t[1]).val,
       func_h(t[3], n, t[1]).val >>

RECURSIVE Iter(_, _)
Iter(k, t) == IF k = 0 THEN t ELSE fgh(Iter(k - 1, t))

\* The starting triple of the attempt in progress, from its seed's draws.
Start ==
    LET d == mt[current_seed]
    IN << (PowNat(base, d[1], p) * PowNat(y, d[2], p)) % p, d[1], d[2] >>

\* C10: after k iterations the tortoise is the k-th iterate of the single
\* step from (x_0, a_0, b_0), the hare the 2k-th, and the hare's
\* intermediate triple the (2k - 1)-th.
C10_DoubleSpeed ==
    (pc \in {"loop", "returned", "done"}) =>
        /\ << x_i, a_i, b_i >> = Iter(Iterations, Start)
        /\ << x_2i, a_2i, b_2i >> = Iter(2 * Iterations, Start)
        /\ Iterations >= 1 =>
               << xm_2i, am_2i, bm_2i >> = Iter(2 * Iterations - 1, Start)

C10_Witness ==
    /\ pc = "loop" /\ i >= 3 /\ ValidGroup
    /\ x_i # x_2i /\ xm_2i # x_2i /\ xm_2i # x_i
    /\ << x_2i, a_2i, b_2i >> = Iter(2 * i, Start)
    /\ a_2i # am_2i /\ b_2i # b_i

\* Whether the walk state w = <<x_i, a_i, b_i, x_2i, a_2i, b_2i>> is a collision.
Collides(w) == w[1] = w[4]

\* C11: positions are compared only after a step, so the equal starting
\* positions end nothing; the first collision ends the attempt, which
\* returns what eqs_solvers returns for the exponents there, None included,
\* and walks no further, even before n iterations.
C11_FirstCollision ==
    \A k \in 1..Len(trace) :
        LET w == trace[k]
            last == w[Len(w)]
        IN w # << >> =>
            /\ Collides(w[1])
            /\ \A j \in 2..(Len(w) - 1) : ~Collides(w[j])
            /\ (k = Len(trace) /\ pc = "loop") => (Len(w) = 1 \/ ~Collides(last))
            /\ (k <= Len(attempts) /\ Len(w) >= 2 /\ Collides(last)) =>
                   Outcome(k) = eqs_solvers(last[2], last[3], last[5], last[6], n)
            /\ (k <= Len(attempts) /\ ~(Len(w) >= 2 /\ Collides(last))) =>
                   (Outcome(k) = None /\ Len(w) = n + 1)

C11_Witness ==
    /\ pc = "returned" /\ ~ret.some /\ ValidGroup
    /\ Iterations >= 2 /\ Iterations < n
    /\ x_i = x_2i
    /\ ret = eqs_solvers(a_i, b_i, a_2i, b_2i, n)

\* C12: for composite n, r = (b1 - b2) mod n non-zero, d = gcd(r, n) > 1
\* and d dividing a2 - a1, a returned Some(x) solves the congruence with
\* both sides divided by d: ((b1 - b2) / d) * x = ((a2 - a1) / d) (mod n / d).
C12_AsClaimed ==
    (pc = "called" /\ call.n > 1 /\ ~IsPrime(call.n)) =>
        LET r == rem_euc(call.b1 - call.b2, call.n)
            d == gcd(r, call.n)
        IN (r # 0 /\ d > 1 /\ (call.a2 - call.a1) % d = 0 /\ call_ret.some) =>
               (div_trunc(call.b1 - call.b2, d) * call_ret.val
                    - div_trunc(call.a2 - call.a1, d)) % (call.n \div d) = 0

\* The Euclidean reduction of A by M is in [0, M) and differs from A by a
\* multiple of M.
EuclideanReduction(A, M) ==
    /\ rem_euc(A, M) \in 0..(M - 1)
    /\ (A - rem_euc(A, M)) % M = 0

\* C13: for p > 0 and n > 0 the positions of the tortoise and of the hare
\* are in [0, p) and their exponents in [0, n) in every state of an
\* attempt; the Euclidean reduction of an integer by a positive modulus is
\* in [0, m) and differs from the integer by a multiple of m, and -21
\* reduced by 4 is 3.
C13_Range ==
    /\ (p > 0 /\ n > 0 /\ pc \in {"loop", "returned", "done"}) =>
           /\ {x_i, x_2i} \subseteq 0..(p - 1)
           /\ {a_i, b_i, a_2i, b_2i} \subseteq 0..(n - 1)
           /\ Iterations >= 1 =>
                  (xm_2i \in 0..(p - 1) /\ {am_2i, bm_2i} \subseteq 0..(n - 1))
    /\ (p > 0 /\ n > 0 /\ pc = "loop") =>
           /\ \A e \in {a_i, b_i, am_2i, bm_2i} :
                  EuclideanReduction(e * 2, n) /\ EuclideanReduction(e + 1, n)
           /\ \A x \in {x_i, xm_2i} :
                  EuclideanReduction(base * x, p) /\ EuclideanReduction(y * x, p)
    /\ pc = "attempt" =>
           \A m \in {p, n} \cap (1..MaxGroupP) :
               \A a \in (-2 * MaxGroupP)..(2 * MaxGroupP) :
                   EuclideanReduction(a, m)
    /\ rem_euc(-21, 4) = 3

C13_Witness ==
    /\ pc = "loop" /\ i >= 2 /\ n >= 3 /\ p >= 5
    /\ a_i = n - 1 /\ b_2i = n - 1
    /\ mod_u(x_i, 3) = 1
    /\ rem_euc(a_i + 1, n) = 0

\* C14: for every integer position, negative and zero included, func_f,
\* func_g and func_h take one of the residue branches 0, 1, 2 and return
\* Ok: MappingError is never returned and no expect() of pollard_rho
\* panics; the only abort of a call is the draw from an empty range.
C14_NoMappingError ==
    /\ pc = "panic" => n <= 0
    /\ (n > 0 /\ pc = "loop") =>
           /\ single_step(x_i, a_i, b_i).ok
           /\ double_step(x_2i, a_2i, b_2i).ok
    /\ (n > 0 /\ pc = "attempt") =>
           \A X \in (-2 * MaxGroupP)..(2 * MaxGroupP) :
               /\ mod_u(X, 3) \in {0, 1, 2}
               /\ func_f(X, base, y, p).ok
               /\ \A E \in 0..(n - 1) : func_g(E, n, X).ok /\ func_h(E, n, X).ok

C14_Witness ==
    /\ pc = "loop" /\ i >= 2 /\ loop_cond
    /\ {mod_u(x_i, 3), mod_u(x_2i, 3), mod_u(xm_2i, 3)} = {0, 1, 2}
    /\ single_step(x_i, a_i, b_i).ok
    /\ double_step(x_2i, a_2i, b_2i).ok

\* C15: within one call the group parameters, the limit and the caller's
\* seed never change; an attempt starts from the draws of its own seed
\* only, tortoise and hare on the same fresh triple and the counter at 0;
\* between attempts only the current seed and the attempt counter move,
\* each by one.
C15_Frame ==
    [][ /\ << base, y, p, n, limit, seed >>' = << base, y, p, n, limit, seed >>
        /\ current_seed' = seed + loop_count'
        /\ (pc = "attempt" /\ pc' = "loop") =>
               /\ << x_i', a_i', b_i' >> = Start'
               /\ << x_2i', a_2i', b_2i' >> = Start'
               /\ i' = 0
               /\ << current_seed, loop_count >>' = << current_seed, loop_count >>
               /\ \A s \in DOMAIN mt : mt'[s] = mt[s]
        /\ (pc = "returned" /\ pc' = "attempt") =>
               /\ current_seed' = current_seed + 1
               /\ loop_count' = loop_count + 1
      ]_vars

C15_Witness ==
    /\ pc = "loop" /\ i = 0 /\ loop_count = 1
    /\ seed = 1 /\ current_seed = 2
    /\ << x_i, a_i, b_i >> = Start
    /\ Len(trace) = 2 /\ Len(trace[1]) >= 3
    /\ trace[1][1] # trace[2][1]
    /\ << x_i, a_i, b_i >> # << xm_2i, am_2i, bm_2i >>

\* C16: for n > 1 every value eqs_solvers returns as Some(x), in the
\* invertible branch and in the gcd branch, every value pollard_rho
\* returns as Some(x), and the result of try_pollard_rho, key or zero
\* sentinel, is in [0, n).
C16_ResultRange ==
    /\ (pc = "called" /\ call.n > 1 /\ call_ret.some) =>
           call_ret.val \in 0..(call.n - 1)
    /\ (n > 1 /\ ret.some) => ret.val \in 0..(n - 1)
    /\ (n > 1 /\ pc = "done") => result \in 0..(n - 1)
    /\ \A k \in 1..Len(attempts) :
           (n > 1 /\ Outcome(k).some) => Outcome(k).val \in 0..(n - 1)

C16_Witness ==
    /\ pc = "called" /\ call.n > 1 /\ ~IsPrime(call.n)
    /\ call.a2 - call.a1 < 0
    /\ ~invert(rem_euc(call.b1 - call.b2, call.n), call.n).some
    /\ gcd(rem_euc(call.b1 - call.b2, call.n), call.n) \in 2..(call.n - 1)
    /\ call_ret.some /\ call_ret.val \in 0..(call.n - 1)

====
